---- MODULE Spec2Model ----
(***************************************************************************)
(* Round orchestrator of the Meme Arena backend (src/main.py, with the     *)
(* decision engine of src/backend/agents.py).  The model follows the       *)
(* background task blockchain_startup -> fund_agents -> register_agents -> *)
(* market_loop from one suspension point to the next, together with the    *)
(* ledger it talks to, the HTTP reader of live_state and the shutdown      *)
(* that cancels the task.                                                  *)
(*                                                                         *)
(* Time is in whole seconds, prices in tenths (4.0 is 40), probabilities   *)
(* in percent (random.random() < 0.6 is roll < 60), ether in thousandths   *)
(* (0.005 ether is 5).                                                     *)
(***************************************************************************)
EXTENDS Integers, Sequences, FiniteSets, TLC

\* ---------------------------------------------------------------- bounds
\* In one tick at most MaxTraders agents decide to trade; the others hold.
MaxTraders == 1
\* The clock stops at MaxTime: no sleep returns later than that.
MaxTime == 5
\* The ledger accepts at most MaxTx transactions of the admin (nonces 0..MaxTx-1).
MaxTx == 2
\* Scaled durations of the betting window (30 s in the code) and of the
\* trading window (90 s in the code).
BettingDuration == 1
round_duration == 0
\* The appends the history buffer is followed over, past its capacity.
MaxAppends == 52
\* The draws of one random.randint the engine is followed over: 0..MaxPick
\* reaches every value of its widest range, 15..70.
MaxPick == 55

\* ------------------------------------------------------- program constants
STRATEGIES == <<"Sniper", "Hodler", "Degen", "CopyTrader", "Whale">>
HistoryCap == 50
BettingSleep == 1
TradingSleep == 2
SweepPause == 1
BootDelay == 1
LowBalance == 5
TopUp == 20

NumAgents == Len(STRATEGIES)
Agents == 1..NumAgents

\* Inputs the environment draws: the price of a tick, the random.random() of
\* each agent and the draw of its random.randint.
Prices == {70}
Rolls == {10, 50, 90}
Picks == {0}
BalanceReads == {LowBalance - 1, LowBalance}

Max(a, b) == IF a > b THEN a ELSE b

VARIABLES
    pc,             \* where the background task is
    ret,            \* where fund_agents returns to
    idx,            \* the agent a sweep is at (for agent in agents)
    nonce,          \* the local variable nonce of the running function
    now,            \* time.time()
    betting_end,    \* market_loop's betting_end
    start_time,     \* market_loop's start_time
    mock_price,     \* market_loop's mock_price
    round_balances, \* market_loop's round_balances
    history,        \* market_loop's history
    live_state,     \* the module-level live_state dict
    phase,          \* the phase the orchestrator is in
    chainNonce,     \* ledger: confirmed transactions of the admin
    accepted,       \* ledger: submissions accepted per nonce (counted up to 2)
    lastCall,       \* the last ledger call the task made
    settles,        \* endRound attempts since the round started
    reader,         \* the HTTP reader of /api/history
    decisions,      \* the (decision, amount) each agent returned in the running tick
    regFailed       \* agents whose registerAgent failed, no funding sweep over since

vars == <<pc, ret, idx, nonce, now, betting_end, start_time, mock_price,
          round_balances, history, live_state, phase, chainNonce, accepted,
          lastCall, settles, reader, decisions, regFailed>>

\* ------------------------------------------------------------ decision engine
Hold == [decision |-> "hold", amount |-> 0]
Buy(q) == [decision |-> "buy", amount |-> q]
Sell(q) == [decision |-> "sell", amount |-> q]

\* As randint, the upper end open by one.
randintPastEnd(a, b, pick) == a + (pick % (b - a + 2))

\* random.randint(a, b): an integer of a..b, chosen by the draw pick.
randint(a, b, pick) == a + (pick % (b - a + 1))

\* MemeAgent.execute_strategy: roll is the one random.random() the taken
\* branch evaluates, pick the draw of its random.randint.
execute_strategy(strategy, market_price, roll, pick) ==
    CASE strategy = "Sniper" ->
            IF market_price < 40
            THEN (IF roll < 60 THEN Buy(randint(30, 80, pick)) ELSE Hold)
            ELSE (IF roll < 15 THEN Buy(randint(10, 30, pick)) ELSE Hold)
      [] strategy = "Hodler" ->
            IF roll < 35 THEN Buy(randint(20, 60, pick)) ELSE Hold
      [] strategy = "Degen" ->
            IF roll < 40 THEN Buy(randint(15, 70, pick))
            ELSE IF roll < 70 THEN Sell(randint(10, 40, pick))
            ELSE Hold
      [] strategy = "CopyTrader" ->
            IF market_price > 60
            THEN (IF roll < 50 THEN Buy(randint(20, 60, pick)) ELSE Hold)
            ELSE IF market_price < 30
            THEN (IF roll < 30 THEN Sell(randint(10, 30, pick)) ELSE Hold)
            ELSE (IF roll < 30 THEN Buy(randint(10, 40, pick)) ELSE Hold)
      [] strategy = "Whale" ->
            IF roll < 25 THEN Buy(randint(40, 80, pick)) ELSE Hold
      [] OTHER -> Hold

\* What one tick can draw: a price and, for every agent in turn, the outcome
\* of agent.execute_strategy(mock_price) under some roll and pick.
TickDraws ==
    {draw \in {[price |-> p,
                decisions |-> [a \in Agents |->
                                  execute_strategy(STRATEGIES[a], p, r[a], k[a])]] :
                 p \in Prices, r \in [Agents -> Rolls], k \in [Agents -> Picks]} :
        Cardinality({a \in Agents : draw.decisions[a].decision # "hold"}) <= MaxTraders}

\* ---------------------------------------------------------------- registry
\* As ApplyDecision, a sale emptying the balance.
ApplyDecisionSellAll(bal, d) ==
    IF d.decision = "buy" THEN bal + d.amount
    ELSE IF d.decision = "sell" THEN 0
    ELSE bal

\* As ApplyDecision, selling without the floor at 0.
ApplyDecisionNoFloor(bal, d) ==
    IF d.decision = "buy" THEN bal + d.amount
    ELSE IF d.decision = "sell" THEN bal - d.amount
    ELSE bal

\* market_loop's bookkeeping of one decision on one balance.
ApplyDecision(bal, d) ==
    IF d.decision = "buy" THEN bal + d.amount
    ELSE IF d.decision = "sell" THEN Max(0, bal - d.amount)
    ELSE bal

ZeroBalances == [a \in Agents |-> 0]

\* Outside a tick no agent has decided anything.
NoDecisions == [a \in Agents |-> Hold]

\* As ResetBalances, the balances of the round before kept.
KeepBalances(bals) == bals

\* round_balances = {agent.name: 0 for agent in agents}, replacing bals.
ResetBalances(bals) == [a \in DOMAIN bals |-> 0]

\* ----------------------------------------------------------------- history
\* As AppendHistory, nothing appended.
AppendHistorySkipped(h, entry) == h

\* As AppendHistory, the newest entry dropped on overflow.
AppendHistoryDropNewest(h, entry) ==
    LET h1 == Append(h, entry)
    IN  IF Len(h1) > HistoryCap THEN SubSeq(h1, 1, Len(h1) - 1) ELSE h1

\* history.append(entry); if len(history) > 50: history.pop(0)
AppendHistory(h, entry) ==
    LET h1 == Append(h, entry)
    IN  IF Len(h1) > HistoryCap THEN Tail(h1) ELSE h1

\* As update_state, the history left out.
update_state_no_history(ph, round_end_time, h) ==
    [phase |-> ph, roundEndTime |-> round_end_time, history |-> <<>>]

\* update_state: the three fields of live_state are overwritten in place,
\* the history by a copy of the list.
update_state(ph, round_end_time, h) ==
    [phase |-> ph, roundEndTime |-> round_end_time, history |-> h]

\* ------------------------------------------------------------------ winner
\* As Beats, comparing with 0 instead of the best so far.
BeatsZero(bal, highest) == bal > 0

\* As Beats, with >= for >.
BeatsOrEqual(bal, highest) == bal >= highest

\* The test of the winner loop: if bal > highest.
Beats(bal, highest) == bal > highest

\* for agent in agents: the scan from agent a on, holding the best so far.
RECURSIVE WinnerScan(_, _, _, _)
WinnerScan(bals, a, highest, winner_agent) ==
    IF a > NumAgents THEN winner_agent
    ELSE IF Beats(bals[a], highest)
         THEN WinnerScan(bals, a + 1, bals[a], a)
         ELSE WinnerScan(bals, a + 1, highest, winner_agent)

\* winner_agent after the loop; 0 is None.
Winner(bals) == WinnerScan(bals, 1, 0, 0)

\* As RoundOver, with >= for >.
RoundOverEarly(t, started) == t - started >= round_duration

\* if time.time() - start_time > round_duration
RoundOver(t, started) == t - started > round_duration

\* ------------------------------------------------------------------ ledger
NoCall ==
    [op |-> "none", agent |-> 0, nonce |-> 0, read |-> 0, value |-> 0, result |-> "none"]
Call(op, a, n, rd, res) ==
    [op |-> op, agent |-> a, nonce |-> n, read |-> rd, value |-> 0, result |-> res]

\* The transfer fund_agents signs: to the agent, 0.02 ether, the sweep's nonce.
Transfer(a, n, rd, res) == [Call("topUp", a, n, rd, res) EXCEPT !.value = TopUp]

\* The node takes a transaction whose nonce is not below the confirmed count
\* (one with the nonce of a pending transaction replaces it).
CanAccept(n) == n >= chainNonce /\ n < MaxTx

Accept(n) == [accepted EXCEPT ![n] = IF @ < 2 THEN @ + 1 ELSE 2]

\* w3.eth.get_transaction_count(admin_account.address): the count of the
\* latest block, which leaves pending transactions out.
get_transaction_count == chainNonce

\* One attempt of an admin transaction of market_loop (open, close, settle):
\* the nonce is fetched, the transaction built, signed and sent, all inside
\* one try whose except only logs.
TxOutcomes == {"nonce_failed", "send_failed", "accepted"}
TxAttempt(op, a, outcome) ==
    /\ outcome = "accepted" => CanAccept(get_transaction_count)
    /\ accepted' = (IF outcome = "accepted" THEN Accept(get_transaction_count) ELSE accepted)
    /\ lastCall' = Call(op, a, IF outcome = "nonce_failed" THEN -1 ELSE get_transaction_count,
                        -1, outcome)

\* -------------------------------------------------------------------- Init
Init ==
    /\ pc = "boot"
    /\ ret = "reg_nonce"
    /\ idx = 0
    /\ nonce = 0
    /\ now = 0
    /\ betting_end = 0
    /\ start_time = 0
    /\ mock_price = 0
    /\ round_balances = ZeroBalances
    /\ history = <<>>
    /\ live_state = [phase |-> "WAITING", roundEndTime |-> 0, history |-> <<>>]
    /\ phase = "WAITING"
    /\ chainNonce = 0
    /\ accepted = [n \in 0..(MaxTx - 1) |-> 0]
    /\ lastCall = NoCall
    /\ settles = 0
    /\ reader = "idle"
    /\ decisions = NoDecisions
    /\ regFailed = {}

\* ----------------------------------------------------------------- startup
\* blockchain_startup up to the first fund_agents: the sleep, then the ABI,
\* the connection and the admin key, any of which missing makes it return.
Boot ==
    /\ pc = "boot"
    /\ now + BootDelay <= MaxTime
    /\ now' = now + BootDelay
    /\ \E ok \in BOOLEAN :
          pc' = (IF ok THEN "fund_nonce" ELSE "returned")
    /\ ret' = "reg_nonce"
    /\ UNCHANGED <<idx, nonce, betting_end, start_time, mock_price,
                   round_balances, history, live_state, phase, chainNonce,
                   accepted, lastCall, settles, reader,
                   decisions, regFailed>>

\* fund_agents, its first line: the nonce is fetched outside any try, so a
\* failure leaves fund_agents, its caller and market_loop, and is caught by
\* blockchain_startup, which ends.  Called from market_loop (ret is
\* "open_betting") it is the first thing a round does.
FundNonce ==
    /\ pc = "fund_nonce"
    /\ \E ok \in BOOLEAN :
          IF ok
          THEN /\ nonce' = get_transaction_count
               /\ idx' = 1
               /\ pc' = "fund_loop"
               /\ lastCall' = Call("get_transaction_count", 0, nonce', -1, "ok")
               /\ settles' = (IF ret = "open_betting" THEN 0 ELSE settles)
          ELSE /\ pc' = "crashed"
               /\ lastCall' = Call("get_transaction_count", 0, -1, -1, "failed")
               /\ UNCHANGED <<nonce, idx, settles>>
    /\ UNCHANGED <<ret, now, betting_end, start_time, mock_price,
                   round_balances, history, live_state, phase, chainNonce,
                   accepted, reader,
                   decisions, regFailed>>

\* The locals of a sweep after one agent: the loop goes on with them, or the
\* function returns and they are gone (0).
AfterAgent(n, last) == IF last THEN 0 ELSE n

\* As LastAgent, the sweep over one agent early.
LastAgentEarly(i) == i >= NumAgents - 1

\* for agent in agents: the loop is over after the last of the agents.
LastAgent(i) == i = NumAgents

\* As NeedsTopUp, with <= for <.
NeedsTopUpAtFloor(balance) == balance <= LowBalance

\* if balance < w3.to_wei(0.005, "ether")
NeedsTopUp(balance) == balance < LowBalance

\* fund_agents, one agent of the loop: the balance is read; below the floor
\* a transfer is sent with the local nonce, which is incremented and followed
\* by time.sleep(1) only when the send returned.  Every failure is caught.
FundAgent ==
    /\ pc = "fund_loop"
    /\ LET last == LastAgent(idx)
       IN  /\ \/ /\ lastCall' = Call("get_balance", idx, nonce, -1, "failed")
                 /\ nonce' = AfterAgent(nonce, last)
                 /\ UNCHANGED <<now, accepted>>
              \/ \E balance \in BalanceReads :
                    IF NeedsTopUp(balance)
                    THEN \/ /\ CanAccept(nonce)
                            /\ now + SweepPause <= MaxTime
                            /\ accepted' = Accept(nonce)
                            /\ lastCall' = Transfer(idx, nonce, balance, "accepted")
                            /\ nonce' = AfterAgent(nonce + 1, last)
                            /\ now' = now + SweepPause
                         \/ /\ lastCall' = Transfer(idx, nonce, balance, "send_failed")
                            /\ nonce' = AfterAgent(nonce, last)
                            /\ UNCHANGED <<now, accepted>>
                    ELSE /\ lastCall' = Call("get_balance", idx, nonce, balance, "ok")
                         /\ nonce' = AfterAgent(nonce, last)
                         /\ UNCHANGED <<now, accepted>>
           /\ idx' = AfterAgent(idx + 1, last)
           /\ pc' = (IF last THEN ret ELSE "fund_loop")
    /\ UNCHANGED <<ret, betting_end, start_time, mock_price, round_balances,
                   history, live_state, phase, chainNonce, settles, reader,
                   decisions, regFailed>>

\* register_agents, its first line: the nonce, again outside any try.
RegNonce ==
    /\ pc = "reg_nonce"
    /\ \E ok \in BOOLEAN :
          IF ok
          THEN /\ nonce' = get_transaction_count
               /\ idx' = 1
               /\ pc' = "reg_loop"
               /\ lastCall' = Call("get_transaction_count", 0, nonce', -1, "ok")
          ELSE /\ pc' = "crashed"
               /\ lastCall' = Call("get_transaction_count", 0, -1, -1, "failed")
               /\ UNCHANGED <<nonce, idx>>
    /\ UNCHANGED <<ret, now, betting_end, start_time, mock_price,
                   round_balances, history, live_state, phase, chainNonce,
                   accepted, settles, reader,
                   decisions, regFailed>>

\* As ShouldRegister, the reply of isAgent ignored.
ShouldRegisterAlways(is_registered) == TRUE

\* if arena_contract.functions.isAgent(agent.address).call(): continue
ShouldRegister(is_registered) == ~is_registered

\* The reply of isAgent as lastCall records it: 1 for True, 0 for False.
ReadOf(is_registered) == IF is_registered THEN 1 ELSE 0

\* register_agents, one agent of the loop: isAgent is asked; only on False
\* registerAgent is sent.  After the last agent blockchain_startup enters
\* market_loop, whose round starts with fund_agents.
RegAgent ==
    /\ pc = "reg_loop"
    /\ LET last == LastAgent(idx)
       IN  /\ \/ /\ lastCall' = Call("isAgent", idx, nonce, -1, "failed")
                 /\ nonce' = AfterAgent(nonce, last)
                 /\ UNCHANGED <<now, accepted, regFailed>>
              \/ \E is_registered \in BOOLEAN :
                    IF ShouldRegister(is_registered)
                    THEN \/ /\ CanAccept(nonce)
                            /\ now + SweepPause <= MaxTime
                            /\ accepted' = Accept(nonce)
                            /\ lastCall' = Call("registerAgent", idx, nonce,
                                                ReadOf(is_registered), "accepted")
                            /\ nonce' = AfterAgent(nonce + 1, last)
                            /\ now' = now + SweepPause
                            /\ UNCHANGED regFailed
                         \/ /\ lastCall' = Call("registerAgent", idx, nonce,
                                                ReadOf(is_registered), "send_failed")
                            /\ nonce' = AfterAgent(nonce, last)
                            /\ regFailed' = regFailed \cup {idx}
                            /\ UNCHANGED <<now, accepted>>
                    ELSE /\ lastCall' = Call("isAgent", idx, nonce,
                                             ReadOf(is_registered), "ok")
                         /\ nonce' = AfterAgent(nonce, last)
                         /\ UNCHANGED <<now, accepted, regFailed>>
           /\ idx' = AfterAgent(idx + 1, last)
           /\ pc' = (IF last THEN "fund_nonce" ELSE "reg_loop")
           /\ ret' = (IF last THEN "open_betting" ELSE ret)
    /\ UNCHANGED <<betting_end, start_time, mock_price, round_balances,
                   history, live_state, phase, chainNonce, settles, reader,
                   decisions>>

\* ------------------------------------------------------------------ betting
\* market_loop, the betting phase opens: setBettingActive(True) is attempted
\* and betting_end is set.
OpenBetting ==
    /\ pc = "open_betting"
    /\ phase' = "BETTING"
    /\ \E outcome \in TxOutcomes : TxAttempt("setBettingActive(True)", 0, outcome)
    /\ betting_end' = now + BettingDuration
    /\ pc' = "betting"
    /\ regFailed' = {}
    /\ UNCHANGED <<ret, idx, nonce, now, start_time, mock_price, round_balances,
                   history, live_state, chainNonce, settles, reader, decisions>>

\* As BettingOpen, with <= for <.
BettingOpenOneMore(t, deadline) == t <= deadline

\* while time.time() < betting_end
BettingOpen(t, deadline) == t < deadline

\* while time.time() < betting_end: update_state(...); await asyncio.sleep(1)
BettingPublish ==
    /\ pc = "betting"
    /\ BettingOpen(now, betting_end)
    /\ live_state' = update_state("BETTING", betting_end, history)
    /\ pc' = "betting_sleep"
    /\ lastCall' = NoCall
    /\ UNCHANGED <<ret, idx, nonce, now, betting_end, start_time, mock_price,
                   round_balances, history, phase, chainNonce, accepted,
                   settles, reader,
                   decisions, regFailed>>

BettingWake ==
    /\ pc = "betting_sleep"
    /\ now + BettingSleep <= MaxTime
    /\ now' = now + BettingSleep
    /\ pc' = "betting"
    /\ UNCHANGED <<ret, idx, nonce, betting_end, start_time, mock_price,
                   round_balances, history, live_state, phase, chainNonce,
                   accepted, lastCall, settles, reader,
                   decisions, regFailed>>

\* The betting loop is left: setBettingActive(False) is attempted, then
\* start_time is taken and round_balances is built anew, all zero.
CloseBetting ==
    /\ pc = "betting"
    /\ ~BettingOpen(now, betting_end)
    /\ phase' = "TRADING"
    /\ \E outcome \in TxOutcomes : TxAttempt("setBettingActive(False)", 0, outcome)
    /\ start_time' = now
    /\ round_balances' = ResetBalances(round_balances)
    /\ pc' = "decide"
    /\ UNCHANGED <<ret, idx, nonce, now, betting_end, mock_price, history,
                   live_state, chainNonce, settles, reader,
                   decisions, regFailed>>

\* ------------------------------------------------------------------ trading
\* As EntriesAfterWrite, the entries of the running round holding the dict
\* round_balances itself instead of a copy of it.
EntriesSharingBalances(h, bals) ==
    [i \in DOMAIN h |->
        IF h[i].time >= start_time THEN [h[i] EXCEPT !.balances = bals] ELSE h[i]]

\* The entries of a list after round_balances was written in place: each
\* holds "balances": dict(round_balances), a dict of its own that the write
\* does not reach.
EntriesAfterWrite(h, bals) == h

\* One tick up to await asyncio.gather: a price is drawn, every agent decides
\* and its decision is booked on round_balances, in place.
TickDecide ==
    /\ pc = "decide"
    /\ \E draw \in TickDraws :
          /\ mock_price' = draw.price
          /\ decisions' = draw.decisions
          /\ round_balances' =
                [a \in Agents |-> ApplyDecision(round_balances[a], draw.decisions[a])]
    /\ history' = EntriesAfterWrite(history, round_balances')
    /\ live_state' =
          [live_state EXCEPT !.history = EntriesAfterWrite(@, round_balances')]
    /\ pc' = "gather"
    /\ lastCall' = NoCall
    /\ UNCHANGED <<ret, idx, nonce, now, betting_end, start_time, phase,
                   chainNonce, accepted, settles, reader, regFailed>>

\* The rest of the tick: the entry is appended, the state published and the
\* deadline tested.  Past the deadline the winner is looked for, endRound is
\* attempted for it, and the next round starts; otherwise the task sleeps.
TickRecord ==
    /\ pc = "gather"
    /\ LET entry == [time |-> now, price |-> mock_price, balances |-> round_balances]
           winner_agent == Winner(round_balances)
       IN  /\ history' = AppendHistory(history, entry)
           /\ live_state' = update_state("ROUND", start_time + round_duration, history')
           /\ IF RoundOver(now, start_time)
              THEN /\ phase' = "SETTLING"
                   /\ IF winner_agent # 0
                      THEN /\ \E outcome \in TxOutcomes :
                                 TxAttempt("endRound", winner_agent, outcome)
                           /\ settles' = settles + 1
                      ELSE UNCHANGED <<accepted, lastCall, settles>>
                   /\ pc' = "fund_nonce"
              ELSE /\ pc' = "trade_sleep"
                   /\ UNCHANGED <<phase, accepted, lastCall, settles>>
    /\ decisions' = NoDecisions
    /\ UNCHANGED <<ret, idx, nonce, now, betting_end, start_time, mock_price,
                   round_balances, chainNonce, reader, regFailed>>

\* await asyncio.sleep(2) returns.
TradeWake ==
    /\ pc = "trade_sleep"
    /\ now + TradingSleep <= MaxTime
    /\ now' = now + TradingSleep
    /\ pc' = "decide"
    /\ UNCHANGED <<ret, idx, nonce, betting_end, start_time, mock_price,
                   round_balances, history, live_state, phase, chainNonce,
                   accepted, lastCall, settles, reader, decisions, regFailed>>

\* -------------------------------------------------------------- environment
\* The ledger confirms the pending transaction whose nonce is next.
Mine ==
    /\ chainNonce < MaxTx
    /\ accepted[chainNonce] > 0
    /\ chainNonce' = chainNonce + 1
    /\ UNCHANGED <<pc, ret, idx, nonce, now, betting_end, start_time,
                   mock_price, round_balances, history, live_state, phase,
                   accepted, lastCall, settles, reader,
                   decisions, regFailed>>

\* As Suspended, the pause of a sweep being a suspension too.
SuspendedInSweeps ==
    pc \in {"boot", "betting_sleep", "gather", "trade_sleep", "fund_loop", "reg_loop"}

\* Where the task is suspended (await asyncio.sleep, await asyncio.gather) or
\* over: only there the event loop runs anything else.  The pause of a sweep
\* is time.sleep, which does not suspend.
Suspended == pc \in {"boot", "betting_sleep", "gather", "trade_sleep"}
Ended == pc \in {"returned", "crashed", "cancelled"}

\* get_history: a plain def, run off the event loop; it returns live_state
\* itself, the one dict, and the response is built from it later, when the
\* event loop gets back to the request.
GetHistory ==
    /\ Suspended \/ Ended
    /\ reader = "idle"
    /\ reader' = "holding"
    /\ UNCHANGED <<pc, ret, idx, nonce, now, betting_end, start_time,
                   mock_price, round_balances, history, live_state, phase,
                   chainNonce, accepted, lastCall, settles, decisions,
                   regFailed>>

\* The response is serialised from the dict the handler returned.
Respond ==
    /\ Suspended \/ Ended
    /\ reader = "holding"
    /\ reader' = "idle"
    /\ UNCHANGED <<pc, ret, idx, nonce, now, betting_end, start_time,
                   mock_price, round_balances, history, live_state, phase,
                   chainNonce, accepted, lastCall, settles, decisions,
                   regFailed>>

\* lifespan after the yield: task.cancel(), delivered where the task waits.
Cancel ==
    /\ Suspended
    /\ pc' = "cancelled"
    /\ UNCHANGED <<ret, idx, nonce, now, betting_end, start_time, mock_price,
                   round_balances, history, live_state, phase, chainNonce,
                   accepted, lastCall, settles, reader,
                   decisions, regFailed>>

Next ==
    \/ Boot
    \/ FundNonce
    \/ FundAgent
    \/ RegNonce
    \/ RegAgent
    \/ OpenBetting
    \/ BettingPublish
    \/ BettingWake
    \/ CloseBetting
    \/ TickDecide
    \/ TickRecord
    \/ TradeWake
    \/ Mine
    \/ GetHistory
    \/ Respond
    \/ Cancel

Spec == Init /\ [][Next]_vars

\* ------------------------------------------------------- the history buffer
\* The buffer on its own, over more appends than a bounded clock lets the
\* rounds make: the part of a tick that builds the entry and appends it, one
\* second per tick, from any starting second, price and balances.
HistoryStarts == 0..2
HistoryPrices == {1, 50, 100}
HistoryBalances == {ZeroBalances, [a \in Agents |-> 10 * a]}

InitHistory ==
    /\ pc = "append"
    /\ ret = "append"
    /\ idx = 0
    /\ nonce = 0
    /\ start_time \in HistoryStarts
    /\ now = start_time
    /\ betting_end = start_time
    /\ mock_price \in HistoryPrices
    /\ round_balances \in HistoryBalances
    /\ history = <<>>
    /\ live_state = [phase |-> "WAITING", roundEndTime |-> 0, history |-> <<>>]
    /\ phase = "TRADING"
    /\ chainNonce = 0
    /\ accepted = [n \in 0..(MaxTx - 1) |-> 0]
    /\ lastCall = NoCall
    /\ settles = 0
    /\ reader = "idle"
    /\ decisions = NoDecisions
    /\ regFailed = {}

AppendEntry ==
    /\ pc = "append"
    /\ now - start_time < MaxAppends
    /\ history' = AppendHistory(history, [time |-> now, price |-> mock_price,
                                          balances |-> round_balances])
    /\ live_state' = update_state("ROUND", start_time + round_duration, history')
    /\ now' = now + 1
    /\ UNCHANGED <<pc, ret, idx, nonce, betting_end, start_time, mock_price,
                   round_balances, phase, chainNonce, accepted, lastCall,
                   settles, reader, decisions, regFailed>>

SpecHistory == InitHistory /\ [][AppendEntry]_vars

\* ================================================================== claims
AllZero(bals) == \A a \in Agents : bals[a] = 0
SomePositive(bals) == \E a \in Agents : bals[a] > 0
StrictMax(bals, a) == \A b \in Agents \ {a} : bals[b] < bals[a]
TieAtMax(bals) ==
    \E a, b \in Agents :
        /\ a # b
        /\ bals[a] = bals[b]
        /\ \A c \in Agents : bals[c] <= bals[a]

\* The trading phase has just been settled: the tick that found the deadline
\* passed is done and the next round is about to start.
JustSettled == pc = "fund_nonce" /\ phase = "SETTLING"

PhaseStep ==
    \/ phase' = phase
    \/ phase = "WAITING" /\ phase' = "BETTING"
    \/ phase = "BETTING" /\ phase' = "TRADING"
    \/ phase = "TRADING" /\ phase' = "SETTLING"
    \/ phase = "SETTLING" /\ phase' = "BETTING"

\* C1: the phase only moves WAITING -> BETTING -> TRADING -> SETTLING ->
\* BETTING, WAITING is never entered again, and the cycle has no terminal
\* state: no step ends the task by itself.
C1_PhaseCycle == [][PhaseStep /\ pc' # "crashed"]_vars

\* C2: a failed ledger call never aborts the phase progression: whenever the
\* last ledger call of the task failed, the task is still running (or was
\* shut down).
C2_FailureNeverAborts ==
    lastCall.result \in {"failed", "nonce_failed", "send_failed"} => pc # "crashed"

\* C3: when two or more participants share the maximum round balance at the
\* end of the trading phase, no settleRound call is made for that round.
C3_NoSettleOnTie ==
    (JustSettled /\ TieAtMax(round_balances)) => settles = 0

\* C4: when exactly one participant holds the highest final balance and it is
\* positive, the settleRound call of the round targets that participant and
\* no other, wherever it stands in the iteration order.
C4_SettleTargetsStrictMax ==
    \A a \in Agents :
        (JustSettled /\ StrictMax(round_balances, a) /\ round_balances[a] > 0)
            => (settles = 1 /\ lastCall.op = "endRound" /\ lastCall.agent = a)

C4_Witness ==
    /\ JustSettled
    /\ \E a \in Agents \ {1} :
          /\ StrictMax(round_balances, a)
          /\ round_balances[1] > 0
          /\ lastCall.op = "endRound"
          /\ lastCall.agent = a

\* C5: in a round at most one settleRound submission is attempted, only after
\* the trading deadline has passed and with a winner computed, and a round
\* that has a winner gets exactly one.
C5_SettleOncePerRound ==
    /\ settles <= 1
    /\ settles = 1 =>
          /\ phase = "SETTLING"
          /\ now - start_time > round_duration
          /\ SomePositive(round_balances)
    /\ (JustSettled /\ SomePositive(round_balances)) => settles = 1

C5_Witness ==
    /\ JustSettled
    /\ settles = 1
    /\ lastCall.op = "endRound"
    /\ lastCall.result = "accepted"

C7_BalancesNonNegative ==
    /\ \A a \in Agents : round_balances[a] >= 0
    /\ \A i \in 1..Len(history) : \A a \in Agents : history[i].balances[a] >= 0

\* A sell has been booked: Degen (agent 3) held 15 at the last tick and holds
\* 5 after this one.
C7_Witness ==
    /\ pc = "gather"
    /\ Len(history) >= 1
    /\ history[Len(history)].balances[3] = 15
    /\ round_balances[3] = 5

\* C8 as stated: at the instant a BETTING phase starts, all round balances
\* are 0.
C8_ZeroAtBettingStart ==
    [][(phase # "BETTING" /\ phase' = "BETTING") => AllZero(round_balances')]_vars

\* C8 as amended: at the instant a TRADING phase starts (the first round and
\* every later round), all round balances are 0.
C8_ZeroAtTradingStart ==
    [][(phase # "TRADING" /\ phase' = "TRADING") => AllZero(round_balances')]_vars

\* The trading phase of a later round has just started: the balances are 0
\* although the last recorded entry, of the round before, is not.
C8_Witness ==
    /\ phase = "TRADING"
    /\ pc = "decide"
    /\ now = start_time
    /\ AllZero(round_balances)
    /\ Len(history) >= 1
    /\ ~AllZero(history[Len(history)].balances)

\* C9: no two accepted submissions of the admin carry the same sequence
\* number.
C9_DistinctNonces == \A n \in DOMAIN accepted : accepted[n] <= 1

\* C10: the snapshot a reader holds is not changed in place: while a reader
\* holds what get_history returned, live_state stays as it is.
C10_SnapshotNotMutated ==
    [][(reader = "holding" /\ reader' = "holding") => live_state' = live_state]_vars

\* ------------------------------------------------ the booking of a decision
\* The booking of one decision on its own (the body of for agent in agents,
\* after execute_strategy returned): any agent, any decision with a quantity
\* of the engine's span, on balances below, at and above the quantities.
MaxQuantity == 80
BookQuantities == {0, 1, 10, 39, 40, 41, MaxQuantity}
BookBalances == {0, 10, 40}
BookDecisions ==
    {Hold} \cup {Buy(q) : q \in BookQuantities} \cup {Sell(q) : q \in BookQuantities}

InitBook ==
    /\ pc = "book"
    /\ ret = "book"
    /\ idx \in Agents
    /\ nonce = 0
    /\ now = 0
    /\ betting_end = 0
    /\ start_time = 0
    /\ mock_price = 0
    /\ round_balances \in [Agents -> BookBalances]
    /\ history = <<>>
    /\ live_state = [phase |-> "WAITING", roundEndTime |-> 0, history |-> <<>>]
    /\ phase = "TRADING"
    /\ chainNonce = 0
    /\ accepted = [n \in 0..(MaxTx - 1) |-> 0]
    /\ lastCall = NoCall
    /\ settles = 0
    /\ reader = "idle"
    /\ decisions = NoDecisions
    /\ regFailed = {}

\* if decision == "buy": round_balances[agent.name] += amount
\* elif decision == "sell": round_balances[agent.name] = max(0, ... - amount)
BookDecision ==
    /\ pc = "book"
    /\ \E d \in BookDecisions :
          /\ decisions' = [decisions EXCEPT ![idx] = d]
          /\ round_balances' =
                [round_balances EXCEPT ![idx] = ApplyDecision(round_balances[idx], d)]
    /\ pc' = "booked"
    /\ UNCHANGED <<ret, idx, nonce, now, betting_end, start_time, mock_price,
                   history, live_state, phase, chainNonce, accepted, lastCall,
                   settles, reader, regFailed>>

SpecBook == InitBook /\ [][BookDecision]_vars

\* ------------------------------------------------------ the decision engine
\* execute_strategy on its own: every strategy at every price of
\* random.uniform(0.1, 10.0) in tenths, under every roll in percent and every
\* draw of its randint.
MinPrice == 1
MaxPrice == 100
EngineRolls == 0..99

InitEngine ==
    /\ pc = "engine"
    /\ ret = "engine"
    /\ idx \in Agents
    /\ nonce = 0
    /\ now = 0
    /\ betting_end = 0
    /\ start_time = 0
    /\ mock_price \in MinPrice..MaxPrice
    /\ round_balances = ZeroBalances
    /\ history = <<>>
    /\ live_state = [phase |-> "WAITING", roundEndTime |-> 0, history |-> <<>>]
    /\ phase = "TRADING"
    /\ chainNonce = 0
    /\ accepted = [n \in 0..(MaxTx - 1) |-> 0]
    /\ lastCall = NoCall
    /\ settles = 0
    /\ reader = "idle"
    /\ decisions = NoDecisions
    /\ regFailed = {}

\* decision, amount = agent.execute_strategy(mock_price), for the agent idx.
Decide ==
    /\ pc = "engine"
    /\ \E roll \in EngineRolls, pick \in 0..MaxPick :
          decisions' = [decisions EXCEPT
                           ![idx] = execute_strategy(STRATEGIES[idx], mock_price, roll, pick)]
    /\ pc' = "decided"
    /\ UNCHANGED <<ret, idx, nonce, now, betting_end, start_time, mock_price,
                   round_balances, history, live_state, phase, chainNonce,
                   accepted, lastCall, settles, reader, regFailed>>

SpecEngine == InitEngine /\ [][Decide]_vars

\* C11: after n appends the history buffer holds exactly the last min(n, 50)
\* appended entries in insertion order (the i-th appended entry carries the
\* second start_time + i - 1): its length never exceeds 50 and on overflow
\* only the oldest entry goes.
C11_HistoryLastFifty ==
    LET n == now - start_time
        len == Len(history)
    IN  /\ len = (IF n < HistoryCap THEN n ELSE HistoryCap)
        /\ len <= HistoryCap
        /\ \A i \in 1..len : history[i].time = start_time + (n - len) + (i - 1)
        /\ live_state.history = history \/ n = 0

\* Two entries have been evicted: the buffer is full and starts at the third.
C11_Witness ==
    /\ pc = "append"
    /\ now - start_time = HistoryCap + 2
    /\ Len(history) = HistoryCap
    /\ history[1].time = start_time + 2
    /\ history[HistoryCap].time = now - 1

\* C12: when registerAgent failed for a participant at startup, the next
\* funding sweep makes the registration check for that participant again.
C12_RegistrationRechecked ==
    [][(pc = "fund_loop" /\ idx \in regFailed)
          => lastCall'.op \in {"isAgent", "registerAgent"}]_vars

\* C13: a registerAgent submission for an agent is made only after isAgent
\* was asked for that agent in the same pass and replied False.
C13_RegisterOnlyUnregistered ==
    lastCall.op = "registerAgent"
        => (lastCall.read = ReadOf(FALSE) /\ lastCall.agent \in Agents)

\* The second agent has been registered after isAgent replied False for it.
C13_Witness ==
    /\ pc = "reg_loop"
    /\ idx = 3
    /\ lastCall.op = "registerAgent"
    /\ lastCall.agent = 2
    /\ lastCall.read = 0
    /\ lastCall.result = "accepted"

\* C14: a topUp is submitted only when the balance read for that agent in the
\* same sweep is below the threshold, it always transfers the same amount,
\* and a balance read at or above the threshold ends without a topUp,
\* whatever the round balances are.
C14_TopUpOnlyWhenLow ==
    /\ lastCall.op = "topUp"
          => (lastCall.read \in 0..(LowBalance - 1) /\ lastCall.value = TopUp)
    /\ (lastCall.op = "get_balance" /\ lastCall.result = "ok")
          => lastCall.read >= LowBalance

\* A topUp of the sweep of a later round, the round balances of the round
\* before still standing.
C14_Witness ==
    /\ phase = "SETTLING"
    /\ lastCall.op = "topUp"
    /\ lastCall.result = "accepted"
    /\ lastCall.read < LowBalance
    /\ SomePositive(round_balances)

\* C15: every entry into BETTING comes straight after a funding sweep that
\* started at the first agent, went through the agents one by one, read the
\* balance of each, attempted a topUp for each whose balance it read below
\* the floor, and ended after the last agent.
C15_SweepBeforeBetting ==
    [][/\ (phase # "BETTING" /\ phase' = "BETTING") => pc = "open_betting"
       /\ (pc # "open_betting" /\ pc' = "open_betting")
             => (pc = "fund_loop" /\ idx = NumAgents)
       /\ (pc # "fund_loop" /\ pc' = "fund_loop") => idx' = 1
       /\ (pc = "fund_loop" /\ (pc' # pc \/ idx' # idx))
             => /\ lastCall'.agent = idx
                /\ lastCall'.op \in {"get_balance", "topUp"}
                /\ (lastCall'.op = "get_balance" /\ lastCall'.result = "ok")
                      => lastCall'.read >= LowBalance
                /\ pc' = "fund_loop" => idx' = idx + 1]_vars

\* The sweep of a later round is over, its last act a topUp for the last
\* agent, and BETTING is about to be entered.
C15_Witness ==
    /\ pc = "open_betting"
    /\ phase = "SETTLING"
    /\ lastCall.op = "topUp"
    /\ lastCall.agent = NumAgents

OpenAttempt == lastCall' # lastCall /\ lastCall'.op = "setBettingActive(True)"
CloseAttempt == lastCall' # lastCall /\ lastCall'.op = "setBettingActive(False)"

\* C16: setBettingActive(True) is attempted exactly in the step that enters
\* BETTING and setBettingActive(False) exactly in the step that enters
\* TRADING, at the first wake that is not before the betting deadline and
\* before any tick; no other step attempts either, so a failed attempt is
\* not made again before the same boundary of the next round.
C16_OneAttemptPerBoundary ==
    [][/\ OpenAttempt <=> (phase # "BETTING" /\ phase' = "BETTING")
       /\ CloseAttempt <=> (phase # "TRADING" /\ phase' = "TRADING")
       /\ CloseAttempt => /\ now >= betting_end
                          /\ now < betting_end + BettingSleep
                          /\ history' = history
                          /\ pc' = "decide"]_vars

\* BETTING was entered in a later round with a failed setBettingActive(True),
\* and the betting loop has gone on without another attempt.
C16_Witness ==
    /\ phase = "BETTING"
    /\ pc = "betting"
    /\ Len(history) >= 1
    /\ lastCall.op = "setBettingActive(True)"
    /\ lastCall.result = "send_failed"

\* The ticks of the running trading phase that are done, counted on the clock.
TicksDone == (now - start_time) \div TradingSleep + 1
AfterTick == pc = "trade_sleep" \/ JustSettled

\* C17 as stated: the snapshot published after the k-th tick of a trading
\* phase shows the trading phase (published as "ROUND"), a history of length
\* k and the end time set at the phase's entry, in every round.
C17_SnapshotAtTickK ==
    AfterTick =>
        /\ live_state.phase = "ROUND"
        /\ live_state.roundEndTime = start_time + round_duration
        /\ Len(live_state.history) = TicksDone

\* C17 as amended: the history of that snapshot is the whole buffer, its last
\* k entries those of the running phase and the ones before them those of
\* earlier rounds; its length is k in the first round only.
C17_SnapshotKeepsEarlierRounds ==
    AfterTick =>
        /\ live_state.phase = "ROUND"
        /\ live_state.roundEndTime = start_time + round_duration
        /\ live_state.history = history
        /\ Len(history) >= TicksDone
        /\ \A i \in 1..Len(history) :
              (history[i].time >= start_time) <=> (i > Len(history) - TicksDone)

\* After the first tick of a later round the snapshot holds three entries.
C17_Witness ==
    /\ pc = "trade_sleep"
    /\ TicksDone = 1
    /\ Len(live_state.history) = 3
    /\ live_state.history[2].time < start_time

\* What the engine may return for a strategy at a price.
InRange(strategy, price, d) ==
    /\ d.decision \in {"buy", "sell", "hold"}
    /\ d.amount \in 0..80
    /\ d.decision = "hold" => d.amount = 0
    /\ d.decision = "buy" =>
          CASE strategy = "Sniper" ->
                  d.amount \in (IF price < 40 THEN 30..80 ELSE 10..30)
            [] strategy = "Hodler" -> d.amount \in 20..60
            [] strategy = "Degen" -> d.amount \in 15..70
            [] strategy = "CopyTrader" ->
                  price >= 30 /\ d.amount \in (IF price > 60 THEN 20..60 ELSE 10..40)
            [] strategy = "Whale" -> d.amount \in 40..80
    /\ d.decision = "sell" =>
          CASE strategy = "Degen" -> d.amount \in 10..40
            [] strategy = "CopyTrader" -> price < 30 /\ d.amount \in 10..30
            [] OTHER -> FALSE

\* C18: for every strategy and every price in [0.1, 10.0] every outcome of the
\* engine is buy, sell or hold, with quantity 0 on hold and otherwise a
\* quantity in the strategy's range for the price band, so within 0..80.
C18_DecisionInRange ==
    pc = "decided" => InRange(STRATEGIES[idx], mock_price, decisions[idx])

\* Sniper below 4.0 has bought the top of its range.
C18_Witness ==
    /\ pc = "decided"
    /\ STRATEGIES[idx] = "Sniper"
    /\ mock_price = 39
    /\ decisions[idx] = Buy(80)

Cancelled == pc # "cancelled" /\ pc' = "cancelled"

\* C19 as stated: the task is cancelled only between ticks, at a timer.
C19_CancelBetweenTicks ==
    [][Cancelled => pc \in {"boot", "betting_sleep", "trade_sleep"}]_vars

\* C19 as amended: the task is cancelled only where it is suspended, at a
\* timer or at the await on the agents' trades inside a tick; there no sweep
\* is under way and the last transaction that was built has been sent or has
\* failed.
C19_CancelAtSuspension ==
    [][Cancelled =>
          /\ pc \in {"boot", "betting_sleep", "gather", "trade_sleep"}
          /\ idx = 0
          /\ nonce = 0
          /\ lastCall.result \in {"none", "ok", "failed", "accepted",
                                  "send_failed", "nonce_failed"}]_vars

\* Cancelled inside a tick, after a transaction of the startup went through.
C19_Witness ==
    /\ pc = "cancelled"
    /\ decisions # NoDecisions
    /\ accepted[0] = 1

\* C20: a tick draws one price, books one decision of every agent, and then
\* appends one entry with that price and the balances after those decisions,
\* published in the same step; nothing else writes the price, the balances
\* (but for the reset at the start of trading) or the history.
C20_OneEntryPerTick ==
    [][/\ (pc = "decide" /\ pc' # pc) =>
             /\ pc' = "gather"
             /\ \A a \in Agents :
                   round_balances'[a] = ApplyDecision(round_balances[a], decisions'[a])
             /\ history' = history
       /\ (pc = "gather" /\ pc' \notin {"gather", "cancelled"}) =>
             /\ phase = "TRADING"
             /\ Len(history') = Len(history) + 1
             /\ SubSeq(history', 1, Len(history)) = history
             /\ history'[Len(history')].price = mock_price
             /\ history'[Len(history')].balances = round_balances
             /\ live_state'.history = history'
             /\ round_balances' = round_balances
       /\ history' # history => (pc = "gather" /\ pc' \notin {"gather", "cancelled"})
       /\ mock_price' # mock_price => pc = "decide"
       /\ round_balances' # round_balances =>
             (pc = "decide" \/ (phase # "TRADING" /\ phase' = "TRADING"))]_vars

\* Two ticks are recorded, the second after a trade.
C20_Witness ==
    /\ JustSettled
    /\ Len(history) = 2
    /\ history[2].balances = round_balances
    /\ history[2].balances # history[1].balances

\* The balance a decision leaves, as C21 words it.
Booked(bal, d) ==
    CASE d.decision = "buy" -> bal + d.amount
      [] d.decision = "sell" -> (IF bal - d.amount > 0 THEN bal - d.amount ELSE 0)
      [] d.decision = "hold" -> bal

\* C21: booking a decision changes only the deciding agent's balance: a buy
\* of q makes it balance + q, a sale of q makes it max(0, balance - q), a
\* hold leaves it; every other agent's balance stays.
C21_OnlyDeciderChanges ==
    [][(pc = "book" /\ pc' = "booked") =>
          /\ round_balances'[idx] = Booked(round_balances[idx], decisions'[idx])
          /\ \A a \in Agents \ {idx} : round_balances'[a] = round_balances[a]]_vars

\* Degen has sold 10 of its 40 while the agents around it hold 10 and 40.
C21_Witness ==
    /\ pc = "booked"
    /\ idx = 3
    /\ decisions[3] = Sell(10)
    /\ round_balances = <<10, 10, 30, 40, 40>>

\* What a step may do to a list of entries: leave it, append one entry, or
\* append one and drop the oldest of a full list.
Kept(h, h2) ==
    \/ h2 = h
    \/ Len(h2) = Len(h) + 1 /\ SubSeq(h2, 1, Len(h)) = h
    \/ /\ Len(h) = HistoryCap
       /\ Len(h2) = HistoryCap
       /\ SubSeq(h2, 1, HistoryCap - 1) = Tail(h)

\* C22: an entry never changes after it is appended: every step leaves the
\* time, price and balances of every entry that stays in the buffer, and of
\* every entry of the published snapshot, as they were, and a step that
\* writes round_balances (a booking, the reset) changes no entry at all.
C22_EntriesImmutable ==
    [][/\ Kept(history, history')
       /\ Kept(live_state.history, live_state'.history)
       /\ round_balances' # round_balances =>
             (history' = history /\ live_state'.history = live_state.history)]_vars

\* The second tick of a round has booked a trade; the published entry of the
\* first tick still shows the balances of the first.
C22_Witness ==
    /\ pc = "gather"
    /\ Len(history) = 1
    /\ live_state.history = history
    /\ history[1].time = start_time
    /\ AllZero(history[1].balances)
    /\ SomePositive(round_balances)

\* C23: once the deadline of the trading phase (the published end time,
\* start_time + round_duration) has passed, no price is drawn and no decision
\* is booked: no tick starts after it.
C23_NoTickAfterDeadline ==
    [][(pc = "decide" /\ pc' = "gather") => now <= start_time + round_duration]_vars

\* C24: whenever endRound is submitted for a winner, the balances it was
\* chosen from are those of the last entry of the published snapshot, where
\* the winner shows a positive balance that no other agent exceeds.
C24_SettledFromPublished ==
    (JustSettled /\ settles = 1) =>
        /\ lastCall.op = "endRound"
        /\ Len(live_state.history) > 0
        /\ LET shown == live_state.history[Len(live_state.history)].balances
               w == lastCall.agent
           IN  /\ shown = round_balances
               /\ shown[w] > 0
               /\ \A a \in Agents : shown[a] <= shown[w]

\* endRound went out for CopyTrader, shown with 20 in the last published
\* entry.
C24_Witness ==
    /\ JustSettled
    /\ settles = 1
    /\ lastCall.result = "accepted"
    /\ lastCall.agent = 4
    /\ Len(live_state.history) = 2
    /\ live_state.history[2].balances[4] = 20

====
